---- MODULE Spec2Model ----
(***************************************************************************)
(* PAI sandbox (src/sandbox/entrypoint.py): an HTTP server that runs a     *)
(* submitted snippet in a subprocess with a timeout and returns its        *)
(* output and the files it wrote.  The server is a plain HTTPServer: one   *)
(* request is handled at a time, from do_POST through execute_code.        *)
(*                                                                         *)
(* Strings are sequences of one-character strings.  JSON values are        *)
(* records [t, s, n]: the type tag, the string value, the integer value.   *)
(* Pipe contents and decoded texts are sequences of runs [k, n]: n         *)
(* characters of kind k.                                                   *)
(***************************************************************************)
EXTENDS Integers, Sequences, FiniteSets, TLC

\* ------------------------------------------------------------ constants

MAX_TIMEOUT == 120
DEFAULT_TIMEOUT == 30
MAX_OUTPUT_BYTES == 100 * 1024
MAX_CODE_BYTES == 512 * 1024
MAX_FILE_BYTES == 5 * 1024 * 1024
DRAIN_TIMEOUT == 5
TIMEOUT_EXIT == 124

\* The most descendants of the child alive at once.
MaxDesc == 1


\* ------------------------------------------------------------ JSON values

JAbsent == [t |-> "absent", s |-> <<>>, n |-> 0]
JNull == [t |-> "null", s |-> <<>>, n |-> 0]
JInt(i) == [t |-> "int", s |-> <<>>, n |-> i]
JStr(str) == [t |-> "str", s |-> str, n |-> 0]

PYTHON == <<"p", "y", "t", "h", "o", "n">>
NODE == <<"n", "o", "d", "e">>
RUBY == <<"r", "u", "b", "y">>

Whitespace == {" ", "\n", "\t"}
Digits == {"0", "1", "2", "3", "4", "5", "6", "7", "8", "9"}

DigitVal(c) ==
  CASE c = "0" -> 0 [] c = "1" -> 1 [] c = "2" -> 2 [] c = "3" -> 3
    [] c = "4" -> 4 [] c = "5" -> 5 [] c = "6" -> 6 [] c = "7" -> 7
    [] c = "8" -> 8 [] OTHER -> 9

\* body.get(key, default)
Get(v, default) == IF v.t = "absent" THEN default ELSE v

RECURSIVE LStrip(_)
LStrip(str) ==
  IF str /= <<>> /\ Head(str) \in Whitespace THEN LStrip(Tail(str)) ELSE str

RECURSIVE RStrip(_)
RStrip(str) ==
  IF str /= <<>> /\ str[Len(str)] \in Whitespace
    THEN RStrip(SubSeq(str, 1, Len(str) - 1))
    ELSE str

\* str.strip()
StrStrip(str) == RStrip(LStrip(str))

RECURSIVE DecimalValue(_)
DecimalValue(str) ==
  IF str = <<>> THEN 0
  ELSE 10 * DecimalValue(SubSeq(str, 1, Len(str) - 1)) + DigitVal(str[Len(str)])

\* int(x): [ok, n, exc]
PyInt(v) ==
  CASE v.t = "int" -> [ok |-> TRUE, n |-> v.n, exc |-> ""]
    [] v.t = "str" ->
         LET str == StrStrip(v.s)
             neg == str /= <<>> /\ Head(str) = "-"
             body == IF str /= <<>> /\ Head(str) \in {"-", "+"} THEN Tail(str) ELSE str
         IN  IF body /= <<>> /\ \A i \in 1..Len(body) : body[i] \in Digits
               THEN [ok |-> TRUE,
                     n |-> IF neg THEN 0 - DecimalValue(body) ELSE DecimalValue(body),
                     exc |-> ""]
               ELSE [ok |-> FALSE, n |-> 0, exc |-> "ValueError"]
    [] OTHER -> [ok |-> FALSE, n |-> 0, exc |-> "TypeError"]

Min(a, b) == IF a <= b THEN a ELSE b

\* ------------------------------------------------------------ texts

Run(k, n) == [k |-> k, n |-> n]

RECURSIVE TextLen(_)
TextLen(text) == IF text = <<>> THEN 0 ELSE Head(text).n + TextLen(Tail(text))

\* bytes of a pipe's content: a multi-byte character is three bytes
RECURSIVE ByteLen(_)
ByteLen(raw) ==
  IF raw = <<>> THEN 0
  ELSE (IF Head(raw).k = "mb" THEN 3 * Head(raw).n ELSE Head(raw).n) + ByteLen(Tail(raw))

\* bytes.decode("utf-8", errors="replace"): one character per ASCII byte, per
\* multi-byte sequence and per invalid byte (replaced by U+FFFD)
RECURSIVE Decode(_)
Decode(raw) ==
  IF raw = <<>> THEN <<>>
  ELSE <<Run(IF Head(raw).k = "ws" THEN "ws" ELSE "ch", Head(raw).n)>> \o Decode(Tail(raw))

\* text[:m]
RECURSIVE Slice(_, _)
Slice(text, m) ==
  IF text = <<>> \/ m <= 0 THEN <<>>
  ELSE IF Head(text).n <= m
    THEN <<Head(text)>> \o Slice(Tail(text), m - Head(text).n)
    ELSE <<Run(Head(text).k, m)>>

RECURSIVE TextLStrip(_)
TextLStrip(text) ==
  IF text /= <<>> /\ Head(text).k = "ws" THEN TextLStrip(Tail(text)) ELSE text

RECURSIVE TextRStrip(_)
TextRStrip(text) ==
  IF text /= <<>> /\ text[Len(text)].k = "ws"
    THEN TextRStrip(SubSeq(text, 1, Len(text) - 1))
    ELSE text

\* text.strip()
TextStrip(text) == TextRStrip(TextLStrip(text))

\* len(str(i))
RECURSIVE IntStrLen(_)
IntStrLen(i) ==
  IF i < 0 THEN 1 + IntStrLen(0 - i)
  ELSE IF i < 10 THEN 1 ELSE 1 + IntStrLen(i \div 10)

\* f"Execution timed out after {timeout}s\n"
TimeoutMessage(t) == <<Run("tmsg", 26 + IntStrLen(t) + 1), Run("ws", 1)>>

\* str(e) of the exception an operation raised
ExcText(exc) ==
  CASE exc = "TimeoutExpired" -> <<Run("emsg", 56 + IntStrLen(DRAIN_TIMEOUT))>>
    [] OTHER -> <<Run("emsg", 46)>>

\* ------------------------------------------------------------ requests

NoReq ==
  [path |-> "", clen |-> 0, raw |-> "none", top |-> "object",
   language |-> JAbsent, code |-> JAbsent, timeout |-> JAbsent]

Languages == {JAbsent, JStr(PYTHON), JStr(NODE), JStr(RUBY)}
Codes == {JAbsent, JStr(<<" ", "\n">>), JStr(<<" ", "x">>), JInt(5)}
Timeouts ==
  {JAbsent, JInt(-1), JInt(0), JInt(1), JInt(120), JInt(121),
   JStr(<<"7">>), JStr(<<"a">>), JNull}

\* The POST requests the server may receive.
Requests ==
  {[path |-> "/run", clen |-> 64, raw |-> "json", top |-> "object",
    language |-> l, code |-> c, timeout |-> t] :
      l \in Languages, c \in Codes, t \in Timeouts}
  \cup {[NoReq EXCEPT !.path = "/run", !.clen = 0, !.raw = "empty"],
        [NoReq EXCEPT !.path = "/run", !.clen = 64, !.raw = "invalid"],
        [NoReq EXCEPT !.path = "/run", !.clen = 64, !.raw = "undecodable"],
        [NoReq EXCEPT !.path = "/run", !.clen = 64, !.raw = "json", !.top = "list"],
        [NoReq EXCEPT !.path = "/run", !.clen = MAX_CODE_BYTES, !.raw = "invalid"],
        [NoReq EXCEPT !.path = "/run", !.clen = MAX_CODE_BYTES + 1, !.raw = "json",
                      !.code = JStr(<<"x">>)],
        [NoReq EXCEPT !.path = "/other", !.clen = 64, !.raw = "json",
                      !.code = JStr(<<"x">>)]}

NoResp ==
  [kind |-> "none", status |-> 0, stdout |-> <<>>, stderr |-> <<>>,
   exitCode |-> 0, files |-> <<>>]

\* _send_json({"error": ...}, status)
ErrorResp(status) == [NoResp EXCEPT !.kind = "error", !.status = status]

\* _send_json(result)
ResultResp(out, err, code, fl) ==
  [kind |-> "result", status |-> 200, stdout |-> out, stderr |-> err,
   exitCode |-> code, files |-> fl]

NoArgs == [language |-> <<>>, code |-> <<>>, timeout |-> 0]

Send(status) == [act |-> "send", status |-> status, exc |-> "", args |-> NoArgs]
Raise(exc) == [act |-> "raise", status |-> 0, exc |-> exc, args |-> NoArgs]
Exec(l, c, t) ==
  [act |-> "exec", status |-> 0, exc |-> "",
   args |-> [language |-> l, code |-> c, timeout |-> t]]

\* timeout = min(int(body.get("timeout", DEFAULT_TIMEOUT)), MAX_TIMEOUT)
ClampTimeout(n) == Min(n, MAX_TIMEOUT)

\* Fault: the language check accepts every value.
UnsupportedNever(language) == FALSE

\* language not in ("python", "node")
Unsupported(language) == language \notin {JStr(PYTHON), JStr(NODE)}

\* do_POST up to the call of execute_code: what the handler does with r
Route(r) ==
  IF r.path /= "/run" THEN Send(404)
  ELSE IF r.clen > MAX_CODE_BYTES THEN Send(413)
  ELSE IF r.raw = "undecodable" THEN Raise("UnicodeDecodeError")
  ELSE IF r.raw = "invalid" THEN Send(400)
  ELSE IF r.raw = "json" /\ r.top /= "object" THEN Raise("AttributeError")
  ELSE
    LET body == IF r.raw = "empty" THEN NoReq ELSE r
        language == Get(body.language, JStr(PYTHON))
        code == Get(body.code, JStr(<<>>))
        ti == PyInt(Get(body.timeout, JInt(DEFAULT_TIMEOUT)))
    IN  IF ~ti.ok THEN Raise(ti.exc)
        ELSE IF Unsupported(language) THEN Send(400)
        ELSE IF code.t /= "str" THEN Raise("AttributeError")
        ELSE IF StrStrip(code.s) = <<>> THEN Send(400)
        ELSE Exec(language.s, code.s, ClampTimeout(ti.n))

\* ------------------------------------------------------------ files

\* File names are sequences of code points, compared as Python compares strings.
NameA == <<97>>
NameB == <<98>>
NameAB == <<97, 98>>
NameD == <<100>>

RECURSIVE NameLess(_, _)
NameLess(a, b) ==
  IF a = <<>> THEN b /= <<>>
  ELSE IF b = <<>> THEN FALSE
  ELSE IF Head(a) /= Head(b) THEN Head(a) < Head(b)
  ELSE NameLess(Tail(a), Tail(b))

\* sorted(names)
RECURSIVE Sorted(_)
Sorted(names) ==
  IF names = {} THEN <<>>
  ELSE LET m == CHOOSE x \in names : \A y \in names \ {x} : NameLess(x, y)
       IN  <<m>> \o Sorted(names \ {m})

Entry(name, kind, size, readable) ==
  [name |-> name, kind |-> kind, size |-> size, readable |-> readable]

\* What a snippet may leave in its output directory.
FileChoices ==
  {{Entry(NameB, "file", 1024, TRUE), Entry(NameA, "file", 10, TRUE)},
   {Entry(NameA, "file", 6 * 1024 * 1024, TRUE), Entry(NameAB, "file", MAX_FILE_BYTES - 1, TRUE)},
   {Entry(NameD, "dir", 0, TRUE), Entry(NameB, "file", MAX_FILE_BYTES, TRUE)},
   {Entry(NameA, "file", 10, FALSE), Entry(NameB, "file", 10, TRUE)}}

\* What a snippet may write to its stdout and stderr.
OutputChoices ==
  {[out |-> <<Run("ascii", 5)>>, err |-> <<>>],
   [out |-> <<>>, err |-> <<Run("ascii", 7), Run("ws", 1)>>],
   [out |-> <<Run("ascii", MAX_OUTPUT_BYTES + 1)>>, err |-> <<Run("bad", 2)>>],
   [out |-> <<Run("mb", 40000)>>, err |-> <<>>],
   [out |-> <<Run("ascii", 3)>>, err |-> <<Run("ascii", MAX_OUTPUT_BYTES)>>]}

ExitCodes == {0, 1, TIMEOUT_EXIT}

\* A descendant of the child: in the child's process group or not (setsid),
\* holding the write ends of the child's stdout/stderr pipes or not.
DescKinds == [grp : BOOLEAN, pipes : BOOLEAN]

\* ------------------------------------------------------------ environment

\* An environment is a set of variables, at most one per name.
Var(name, value) == [name |-> name, value |-> value]

SAFE_ENV ==
  {Var("PATH", "/usr/local/bin:/usr/bin:/bin"),
   Var("HOME", "/tmp"),
   Var("LANG", "C.UTF-8"),
   Var("PYTHONUNBUFFERED", "1"),
   Var("MPLBACKEND", "Agg")}

\* os.path.join(work_dir, OUTPUT_DIR_NAME), for the one work root of the model
OutputDir == "work/output"

\* {**a, **b}: the variables of b, and those of a that b does not name
Merge(a, b) == {v \in a : \A w \in b : w.name /= v.name} \cup b

\* What os.environ of the server may hold when a child is launched.
HostEnvs ==
  {{},
   {Var("PATH", "/opt/host/bin"), Var("API_KEY", "secret")},
   {Var("HOME", "/root"), Var("LD_PRELOAD", "/opt/host/hook.so"), Var("OUTPUT_DIR", "/srv")}}

\* Fault: the child inherits the server's environment.
ChildEnvInherited(environ, output_dir) ==
  Merge(Merge(environ, SAFE_ENV), {Var("OUTPUT_DIR", output_dir)})

\* env={**SAFE_ENV, "OUTPUT_DIR": output_dir}
ChildEnv(environ, output_dir) == Merge(SAFE_ENV, {Var("OUTPUT_DIR", output_dir)})

\* ------------------------------------------------------------ state

VARIABLES
  req,        \* the request being handled, or the last one handled
  pc,         \* where the handler is: "idle" before a request, "done" after it
  resp,       \* the response sent for req
  raised,     \* the exception that left do_POST for req, "" if none
  args,       \* execute_code's arguments
  fs,         \* the work root of this invocation on disk
  todo,       \* collection: the names still to visit
  proc,       \* the child process (the group leader)
  desc,       \* the live descendants of the child
  pipes,      \* what has been written to the child's stdout and stderr
  stdout, stderr, exit_code, files,   \* execute_code's locals
  data,       \* collection: the bytes read from the entry being visited
  hist,       \* what this invocation has done so far
  disk,       \* side-by-side calls: per work root name, whether it exists and
              \* the files of its output directory
  inv         \* side-by-side calls: per call, its position, its work root,
              \* what it read and deleted, its result

\* the server handling its requests
main ==
  <<req, pc, resp, raised, args, fs, todo, proc, desc, pipes,
    stdout, stderr, exit_code, files, data, hist>>

\* calls of execute_code side by side
conc == <<disk, inv>>

vars == <<main, conc>>

\* execute_code keeps nothing between calls but what is on disk. Two calls of
\* it that overlap in time share the temporary directory and nothing else.
Invocations == {1, 2}

\* The names mkdtemp(prefix="sandbox-") may give to a work root.
WorkRoots == {"sandbox-a", "sandbox-b", "sandbox-c"}

NoDir == [exists |-> FALSE, files |-> {}]
NoInv == [pc |-> "start", root |-> "", read |-> {}, deleted |-> {}, result |-> {}]

NoFs == [root |-> FALSE, out |-> FALSE, script |-> FALSE, entries |-> {}]
NoProc == [state |-> "none", rc |-> 0, env |-> {}]
NoPipes == [out |-> <<>>, err |-> <<>>]
NoHist ==
  [calls |-> 0, staged |-> "", launched |-> 0, expired |-> FALSE, exitedFirst |-> FALSE,
   kill |-> "none", concluded |-> "", collectRuns |-> 0, touched |-> FALSE,
   collected |-> FALSE, teardownRuns |-> 0]

Init ==
  /\ req = NoReq
  /\ pc = "idle"
  /\ resp = NoResp
  /\ raised = ""
  /\ args = NoArgs
  /\ fs = NoFs
  /\ todo = <<>>
  /\ proc = NoProc
  /\ desc = {}
  /\ pipes = NoPipes
  /\ stdout = <<>>
  /\ stderr = <<>>
  /\ exit_code = 0
  /\ files = <<>>
  /\ data = 0
  /\ hist = NoHist
  /\ disk = [d \in WorkRoots |-> NoDir]
  /\ inv = [i \in Invocations |-> NoInv]

locals == <<stdout, stderr, exit_code, files, data>>

\* ------------------------------------------------------------ do_POST

\* The handler takes request r: it answers it, fails on it, or calls execute_code.
do_POST(r) ==
  /\ pc = "idle"
  /\ LET rt == Route(r)
     IN  /\ req' = r
         /\ args' = rt.args
         /\ resp' = IF rt.act = "send" THEN ErrorResp(rt.status) ELSE NoResp
         /\ raised' = rt.exc
         /\ pc' = IF rt.act = "exec" THEN "stage" ELSE "done"
         /\ hist' = [hist EXCEPT !.calls = IF rt.act = "exec" THEN 1 ELSE 0]
  /\ UNCHANGED <<conc, fs, todo, proc, desc, pipes, locals>>

\* The handler is done with its request; serve_forever waits for the next one,
\* and nothing of the finished invocation is looked at again.
Finish ==
  /\ pc = "done"
  /\ req' = NoReq
  /\ pc' = "idle"
  /\ resp' = NoResp
  /\ raised' = ""
  /\ args' = NoArgs
  /\ fs' = NoFs
  /\ todo' = <<>>
  /\ proc' = NoProc
  /\ desc' = {}
  /\ pipes' = NoPipes
  /\ stdout' = <<>>
  /\ stderr' = <<>>
  /\ exit_code' = 0
  /\ files' = <<>>
  /\ data' = 0
  /\ hist' = NoHist
  /\ UNCHANGED conc

\* An exception leaves execute_code and do_POST: no response is sent.
Escapes(exc) ==
  /\ pc' = "done"
  /\ raised' = exc
  /\ resp' = NoResp

\* ------------------------------------------------------------ execute_code

StageOutcomes == {"ok", "mkdtemp", "makedirs", "write"}

\* mkdtemp, makedirs, the script file, the locals' initial values
Stage(outcome) ==
  /\ pc = "stage"
  /\ fs' = [root |-> outcome /= "mkdtemp",
            out |-> outcome \in {"ok", "write"},
            script |-> outcome = "ok",
            entries |-> {}]
  /\ IF outcome = "ok"
       THEN /\ pc' = "launch"
            /\ stdout' = <<>>
            /\ stderr' = <<>>
            /\ exit_code' = 1
            /\ UNCHANGED <<resp, raised>>
       ELSE /\ Escapes("OSError")
            /\ UNCHANGED <<stdout, stderr, exit_code>>
  /\ hist' = [hist EXCEPT !.staged = outcome]
  /\ UNCHANGED <<conc, req, args, todo, proc, desc, pipes, files, data>>

\* Fault: the exception handler reports every failure as a timeout.
CaughtAsTimeout(exc) ==
  /\ stdout' = <<>>
  /\ stderr' = ExcText(exc)
  /\ exit_code' = TIMEOUT_EXIT
  /\ pc' = "collect"

\* except Exception as e
Caught(exc) ==
  /\ stdout' = <<>>
  /\ stderr' = ExcText(exc)
  /\ exit_code' = 1
  /\ pc' = "collect"

\* Fault: Popen is called outside the try block.
LaunchUncaught(ok) ==
  /\ pc = "launch"
  /\ IF ok
       THEN /\ \E environ \in HostEnvs :
                 proc' = [state |-> "running", rc |-> 0, env |-> ChildEnv(environ, OutputDir)]
            /\ hist' = [hist EXCEPT !.launched = @ + 1]
            /\ pc' = "wait"
            /\ UNCHANGED <<resp, raised>>
       ELSE /\ Escapes("OSError")
            /\ hist' = [hist EXCEPT !.concluded = "launch"]
            /\ UNCHANGED proc
  /\ UNCHANGED <<conc, req, args, fs, todo, desc, pipes, locals>>

\* subprocess.Popen(...)
Launch(ok) ==
  /\ pc = "launch"
  /\ IF ok
       THEN /\ \E environ \in HostEnvs :
                 proc' = [state |-> "running", rc |-> 0, env |-> ChildEnv(environ, OutputDir)]
            /\ hist' = [hist EXCEPT !.launched = @ + 1]
            /\ pc' = "wait"
            /\ UNCHANGED <<stdout, stderr, exit_code>>
       ELSE /\ Caught("OSError")
            /\ hist' = [hist EXCEPT !.concluded = "launch"]
            /\ UNCHANGED proc
  /\ UNCHANGED <<conc, req, resp, raised, args, fs, todo, desc, pipes, files, data>>

\* ------------------------------------------------------------ the snippet

ChildRuns == proc.state = "running" /\ pc \in {"wait", "kill"}

\* The captured output and the collected files meet nowhere in execute_code:
\* a snippet of the model varies what it writes to its pipes and exits with,
\* or the files it leaves.

ChildOutput(o) ==
  /\ ChildRuns
  /\ pipes = NoPipes
  /\ fs.entries = {}
  /\ pipes' = o
  /\ UNCHANGED <<conc, req, pc, resp, raised, args, fs, todo, proc, desc, locals, hist>>

ChildFiles(es) ==
  /\ ChildRuns
  /\ fs.entries = {}
  /\ pipes = NoPipes
  /\ fs' = [fs EXCEPT !.entries = es]
  /\ UNCHANGED <<conc, req, pc, resp, raised, args, todo, proc, desc, pipes, locals, hist>>

ChildSpawn(d) ==
  /\ ChildRuns
  /\ Cardinality(desc) < MaxDesc
  /\ d \notin desc
  /\ desc' = desc \cup {d}
  /\ UNCHANGED <<conc, req, pc, resp, raised, args, fs, todo, proc, pipes, locals, hist>>

ChildExit(rc) ==
  /\ ChildRuns
  /\ fs.entries /= {} => rc = 0
  /\ proc' = [proc EXCEPT !.state = "exited", !.rc = rc]
  /\ UNCHANGED <<conc, req, pc, resp, raised, args, fs, todo, desc, pipes, locals, hist>>

DescExit(d) ==
  /\ pc \notin {"idle", "done"}
  /\ d \in desc
  /\ desc' = desc \ {d}
  /\ UNCHANGED <<conc, req, pc, resp, raised, args, fs, todo, proc, pipes, locals, hist>>

\* ------------------------------------------------------------ supervision

\* Both pipes are at end of file: no live process holds a write end.
PipesEOF == proc.state /= "running" /\ \A d \in desc : ~d.pipes

\* communicate() can return: the pipes are at end of file and the child has exited.
Completed == proc.state = "exited" /\ PipesEOF

\* text = raw.decode("utf-8", errors="replace")[:MAX_OUTPUT_BYTES]
Capture(raw) == Slice(Decode(raw), MAX_OUTPUT_BYTES)

\* f"Execution timed out after {timeout}s\n{stderr_partial}".strip()
TimeoutStderr(t, partial) == TextStrip(TimeoutMessage(t) \o partial)

\* proc.communicate(timeout=timeout) returns
WaitComplete ==
  /\ pc = "wait"
  /\ args.timeout > 0
  /\ Completed
  /\ stdout' = Capture(pipes.out)
  /\ stderr' = Capture(pipes.err)
  /\ exit_code' = proc.rc
  /\ pc' = "collect"
  /\ hist' = [hist EXCEPT !.concluded = "exit"]
  /\ UNCHANGED <<conc, req, resp, raised, args, fs, todo, proc, desc, pipes, files, data>>

\* proc.communicate(timeout=timeout) raises TimeoutExpired
WaitTimeout ==
  /\ pc = "wait"
  /\ args.timeout <= 0 \/ ~Completed
  /\ pc' = "kill"
  /\ hist' = [hist EXCEPT !.expired = TRUE, !.exitedFirst = proc.state = "exited"]
  /\ UNCHANGED <<conc, req, resp, raised, args, fs, todo, proc, desc, pipes, locals>>

\* Fault: a signal the process may ignore (SIGTERM) is sent.
KilledIgnored(p) == p

\* a SIGKILL received
Killed(p) == IF p.state = "running" THEN [p EXCEPT !.state = "killed", !.rc = -9] ELSE p

\* os.killpg(os.getpgid(proc.pid), signal.SIGKILL)
KillGroup ==
  /\ pc = "kill"
  /\ proc' = Killed(proc)
  /\ desc' = {d \in desc : ~d.grp}
  /\ hist' = [hist EXCEPT !.kill = "group"]
  /\ pc' = "drain"
  /\ UNCHANGED <<conc, req, resp, raised, args, fs, todo, pipes, locals>>

\* Fault: no except OSError around killpg; the outer handler gets the error.
KillUncaught ==
  /\ pc = "kill"
  /\ proc.state = "exited"
  /\ Caught("OSError")
  /\ hist' = [hist EXCEPT !.concluded = "kill"]
  /\ UNCHANGED <<conc, req, resp, raised, args, fs, todo, proc, desc, pipes, files, data>>

\* os.getpgid/os.killpg raises OSError (the leader is gone): proc.kill()
KillFallback ==
  /\ pc = "kill"
  /\ proc.state = "exited"
  /\ proc' = Killed(proc)
  /\ hist' = [hist EXCEPT !.kill = "child"]
  /\ pc' = "drain"
  /\ UNCHANGED <<conc, req, resp, raised, args, fs, todo, desc, pipes, locals>>

\* proc.communicate(timeout=5) returns
DrainComplete ==
  /\ pc = "drain"
  /\ PipesEOF
  /\ stdout' = Capture(pipes.out)
  /\ stderr' = TimeoutStderr(args.timeout, Capture(pipes.err))
  /\ exit_code' = TIMEOUT_EXIT
  /\ pc' = "collect"
  /\ hist' = [hist EXCEPT !.concluded = "timeout"]
  /\ UNCHANGED <<conc, req, resp, raised, args, fs, todo, proc, desc, pipes, files, data>>

\* Fault: the drain is a communicate() without a timeout, which never gives up.
DrainBlocks == pc = "drain" /\ FALSE /\ UNCHANGED vars

\* proc.communicate(timeout=5) raises TimeoutExpired, which except Exception catches
DrainTimeout ==
  /\ pc = "drain"
  /\ ~PipesEOF
  /\ Caught("TimeoutExpired")
  /\ hist' = [hist EXCEPT !.concluded = "drain"]
  /\ UNCHANGED <<conc, req, resp, raised, args, fs, todo, proc, desc, pipes, files, data>>

\* ------------------------------------------------------------ collection

\* files = []; if os.path.isdir(output_dir): for fname in sorted(os.listdir(output_dir))
CollectList ==
  /\ pc = "collect"
  /\ LET names == IF fs.out THEN Sorted({e.name : e \in fs.entries}) ELSE <<>>
     IN  /\ todo' = names
         /\ pc' = IF names = <<>> THEN "cleanup" ELSE "files"
         /\ hist' = [hist EXCEPT !.collectRuns = @ + 1, !.collected = names = <<>>]
  /\ files' = <<>>
  /\ UNCHANGED <<conc, req, resp, raised, args, fs, proc, desc, pipes, stdout, stderr, exit_code, data>>

\* Fault: a file of exactly the ceiling's size is collected.
CollectableUpTo(e) == e.kind = "file" /\ e.size <= MAX_FILE_BYTES

\* os.path.isfile(fpath) and os.path.getsize(fpath) < 5 * 1024 * 1024
Collectable(e) == e.kind = "file" /\ e.size < MAX_FILE_BYTES

\* {"name": fname, "data": base64 of the bytes read, "size": os.path.getsize(fpath)}
FileResult(name, read, size) == [name |-> name, data |-> read, size |-> size]

\* The entry of that name as it is on disk now: none if it has been removed.
Found(name) == {e \in fs.entries : e.name = name}

\* the loop goes on to the next name of the listing, or ends
NextEntry ==
  /\ todo' = Tail(todo)
  /\ pc' = IF Tail(todo) = <<>> THEN "cleanup" ELSE "files"
  /\ hist' = [hist EXCEPT !.collected = Tail(todo) = <<>>]

\* the test of the loop body, for the next name of the listing
CollectEntry ==
  /\ pc = "files"
  /\ todo /= <<>>
  /\ IF \E e \in Found(Head(todo)) : Collectable(e)
       THEN /\ pc' = "read"
            /\ UNCHANGED <<todo, hist>>
       ELSE NextEntry
  /\ UNCHANGED <<conc, req, resp, raised, args, fs, proc, desc, pipes, locals>>

\* with open(fpath, "rb") as f: data = base64.b64encode(f.read()).decode()
\* open raises when the file is gone or unreadable: nothing in execute_code
\* catches it
CollectRead ==
  /\ pc = "read"
  /\ LET found == Found(Head(todo))
     IN  IF found = {}
           THEN Escapes("FileNotFoundError") /\ UNCHANGED data
           ELSE IF \E e \in found : ~e.readable
             THEN Escapes("PermissionError") /\ UNCHANGED data
             ELSE /\ data' = (CHOOSE e \in found : TRUE).size
                  /\ pc' = "size"
                  /\ UNCHANGED <<resp, raised>>
  /\ UNCHANGED <<conc, req, args, fs, todo, proc, desc, pipes, stdout, stderr, exit_code, files, hist>>

\* files.append({..., "size": os.path.getsize(fpath)}): getsize raises when the
\* file is gone
CollectSize ==
  /\ pc = "size"
  /\ LET found == Found(Head(todo))
     IN  IF found = {}
           THEN /\ Escapes("FileNotFoundError")
                /\ UNCHANGED <<todo, files, hist>>
           ELSE /\ files' = Append(files, FileResult(Head(todo), data, (CHOOSE e \in found : TRUE).size))
                /\ NextEntry
                /\ UNCHANGED <<resp, raised>>
  /\ UNCHANGED <<conc, req, args, fs, proc, desc, pipes, stdout, stderr, exit_code, data>>

\* A process that outlived supervision can touch the output directory while
\* the loop is on an entry.
SurvivorRuns == desc /= {} /\ pc \in {"files", "read", "size"}

\* a survivor appends to the file the loop is on
DescWrite ==
  /\ SurvivorRuns
  /\ \E e \in Found(Head(todo)) :
       /\ e.kind = "file"
       /\ e.size < MAX_FILE_BYTES
       /\ fs' = [fs EXCEPT !.entries = (@ \ {e}) \cup {[e EXCEPT !.size = MAX_FILE_BYTES + 1024]}]
  /\ hist' = [hist EXCEPT !.touched = TRUE]
  /\ UNCHANGED <<conc, req, pc, resp, raised, args, todo, proc, desc, pipes, locals>>

\* a survivor removes the file the loop is on
DescUnlink ==
  /\ SurvivorRuns
  /\ \E e \in Found(Head(todo)) :
       /\ e.kind = "file"
       /\ fs' = [fs EXCEPT !.entries = @ \ {e}]
  /\ hist' = [hist EXCEPT !.touched = TRUE]
  /\ UNCHANGED <<conc, req, pc, resp, raised, args, todo, proc, desc, pipes, locals>>

\* ------------------------------------------------------------ teardown

\* shutil.rmtree(work_dir, ignore_errors=True): the tree is gone, unless a
\* process that is still alive writes into it while it is being deleted
Rmtree(tree, left) == IF left THEN tree ELSE NoFs

\* rmtree, return the result; do_POST sends it
Cleanup(left) ==
  /\ pc = "cleanup"
  /\ left => desc /= {}
  /\ fs' = Rmtree(fs, left)
  /\ hist' = [hist EXCEPT !.teardownRuns = @ + 1]
  /\ resp' = ResultResp(stdout, stderr, exit_code, files)
  /\ pc' = "done"
  /\ UNCHANGED <<conc, req, raised, args, todo, proc, desc, pipes, locals>>

\* ------------------------------------------------------------ concurrent invocations

\* A file in the output directory of work root dir, written by the child of by.
File(dir, by) == [dir |-> dir, by |-> by]

Existing == {d \in WorkRoots : disk[d].exists}

\* Fault: the work root is a fixed directory, made if it is not there.
MkdtempFixed(existing) == {"sandbox-a"}

\* tempfile.mkdtemp(prefix="sandbox-") makes a directory that did not exist
Mkdtemp(existing) == WorkRoots \ existing

\* work_dir = mkdtemp(...); os.makedirs(output_dir, exist_ok=True); Popen
StageRun(i) ==
  /\ inv[i].pc = "start"
  /\ \E d \in Mkdtemp(Existing) :
       /\ disk' = [disk EXCEPT ![d].exists = TRUE]
       /\ inv' = [inv EXCEPT ![i].pc = "run", ![i].root = d]
  /\ UNCHANGED main

\* The child of i writes a file: into its own output directory, or into any
\* other directory it finds under the temporary directory.
ChildWrite(i, d) ==
  /\ inv[i].pc = "run"
  /\ disk[d].exists
  /\ disk' = [disk EXCEPT ![d].files = @ \cup {File(d, i)}]
  /\ UNCHANGED <<inv, main>>

\* supervision is over; the loop over os.listdir(output_dir) reads the files
Collect(i) ==
  /\ inv[i].pc = "run"
  /\ inv' = [inv EXCEPT ![i].pc = "collected",
                        ![i].read = {inv[i].root},
                        ![i].result = disk[inv[i].root].files]
  /\ UNCHANGED <<disk, main>>

\* shutil.rmtree(work_dir, ignore_errors=True)
Teardown(i) ==
  /\ inv[i].pc = "collected"
  /\ disk' = [disk EXCEPT ![inv[i].root] = NoDir]
  /\ inv' = [inv EXCEPT ![i].pc = "returned", ![i].deleted = {inv[i].root}]
  /\ UNCHANGED main

\* the caller has its result; the next call starts afresh
Return(i) ==
  /\ inv[i].pc = "returned"
  /\ inv' = [inv EXCEPT ![i] = NoInv]
  /\ UNCHANGED <<disk, main>>

ConcNext ==
  \/ \E i \in Invocations : StageRun(i)
  \/ \E i \in Invocations, d \in WorkRoots : ChildWrite(i, d)
  \/ \E i \in Invocations : Collect(i)
  \/ \E i \in Invocations : Teardown(i)
  \/ \E i \in Invocations : Return(i)

\* ------------------------------------------------------------ specification

ServerStep ==
  \/ \E o \in StageOutcomes : Stage(o)
  \/ \E ok \in BOOLEAN : Launch(ok)
  \/ WaitComplete
  \/ WaitTimeout
  \/ KillGroup
  \/ KillFallback
  \/ DrainComplete
  \/ DrainTimeout
  \/ CollectList
  \/ CollectEntry
  \/ CollectRead
  \/ CollectSize
  \/ \E left \in BOOLEAN : Cleanup(left)

SnippetStep ==
  \/ \E o \in OutputChoices : ChildOutput(o)
  \/ \E es \in FileChoices : ChildFiles(es)
  \/ \E d \in DescKinds : ChildSpawn(d)
  \/ \E rc \in ExitCodes : ChildExit(rc)
  \/ \E d \in DescKinds : DescExit(d)
  \/ DescWrite
  \/ DescUnlink

Next ==
  \/ \E r \in Requests : do_POST(r)
  \/ Finish
  \/ ServerStep
  \/ SnippetStep

\* One request at a time, as the server runs them.
Spec == Init /\ [][Next]_vars

\* The handler is one thread whose every blocking call carries a timeout:
\* whenever it can take a step, it takes one.
LiveSpec == Spec /\ WF_vars(ServerStep)

\* Two calls of execute_code side by side, as a threaded caller would run them.
ConcSpec == Init /\ [][ConcNext]_vars

\* ------------------------------------------------------------ claims

\* execute_code was called for req and control has left it.
Left == pc = "done" /\ hist.calls = 1

\* Supervision has concluded: the result's stdout, stderr and exit code are set.
Concluded == hist.concluded /= ""

\* C1: once control has left execute_code, on any path, the work root that the
\* invocation created no longer exists on disk.
C1_WorkRootRemoved == Left => ~fs.root

\* C2: whenever the primary wait expired, the result built has exit code 124 and
\* a stderr that starts with the timeout message, also when the drain after the
\* kill could not complete.
C2_TimeoutResult ==
  (hist.expired /\ Concluded) =>
    /\ exit_code = TIMEOUT_EXIT
    /\ stderr /= <<>>
    /\ Head(stderr).k = "tmsg"

\* C3: every POST /run request ends with exactly one response, an input
\* rejection with a 4xx status or an execution result, and with no exception
\* leaving the handler.
C3_ExactlyOneResponse ==
  (pc = "done" /\ req.path = "/run") =>
    /\ raised = ""
    /\ \/ resp.kind = "error" /\ resp.status \in 400..499
       \/ resp.kind = "result"

\* C4: the timeout that do_POST passes to execute_code is an integer in
\* [1, 120]: a requested value above 120 becomes 120, one below 1 becomes 1,
\* an unspecified one becomes 30.
C4_TimeoutClamped ==
  hist.calls = 1 =>
    /\ args.timeout \in 1..MAX_TIMEOUT
    /\ req.timeout.t = "absent" => args.timeout = DEFAULT_TIMEOUT
    /\ (req.timeout.t = "int" /\ req.timeout.n > MAX_TIMEOUT) => args.timeout = MAX_TIMEOUT
    /\ (req.timeout.t = "int" /\ req.timeout.n < 1) => args.timeout = 1

C6_NoSurvivor ==
  (hist.expired /\ pc \in {"drain", "collect", "files", "read", "size", "cleanup", "done"}) =>
    /\ hist.kill /= "none"
    /\ pc = "done" => (proc.state /= "running" /\ desc = {})

\* C7: when supervision has concluded, collection runs exactly once, it starts
\* only after the child has terminated, it has finished when teardown starts,
\* and on the timeout path it still collects the files present (those of a
\* directory that no surviving process changed meanwhile).
C7_CollectionOrder ==
  /\ hist.collectRuns <= 1
  /\ (Concluded /\ pc \in {"files", "read", "size", "cleanup"}) => hist.collectRuns = 1
  /\ (Concluded /\ pc = "done") => hist.collectRuns = 1
  /\ pc = "collect" => (Concluded /\ hist.collectRuns = 0)
  /\ hist.collectRuns >= 1 => (Concluded /\ proc.state \in {"none", "exited", "killed"})
  /\ hist.teardownRuns >= 1 => (hist.collected /\ hist.collectRuns = 1)
  /\ (pc = "cleanup" /\ hist.expired /\ ~hist.touched) =>
       \A e \in fs.entries :
         Collectable(e) => \E i \in 1..Len(files) : files[i].name = e.name

C7_TimeoutFilesCollected ==
  /\ pc = "done"
  /\ hist.expired
  /\ hist.kill = "group"
  /\ hist.collectRuns = 1
  /\ hist.teardownRuns = 1
  /\ resp.kind = "result"
  /\ Len(resp.files) = 2

\* C8: every invocation of execute_code ends, whatever the child does: from
\* every point of it (the primary wait, the kill, the drain, collection,
\* teardown) control eventually leaves execute_code.
C8_InvocationEnds == (pc \notin {"idle", "done"}) ~> (pc = "done")

C8_DrainGivenUp ==
  /\ pc = "done"
  /\ hist.concluded = "drain"
  /\ \E d \in desc : d.pipes

\* C9: a request that is too large, is not JSON, names an unsupported language
\* or has empty code never reaches execute_code: no work root is created and
\* no process is launched for it; execute_code only gets python or node.
C9_RejectedNeverExecutes ==
  /\ (resp.kind = "error" /\ resp.status \in {400, 413}) =>
       (hist.calls = 0 /\ ~fs.root /\ hist.launched = 0 /\ proc.state = "none")
  /\ (pc /= "idle" /\
        (\/ req.clen > MAX_CODE_BYTES
         \/ req.raw = "invalid"
         \/ req.language = JStr(RUBY)
         \/ req.code.t = "absent"
         \/ req.code.t = "str" /\ StrStrip(req.code.s) = <<>>)) =>
       (hist.calls = 0 /\ ~fs.root /\ hist.launched = 0 /\ proc.state = "none")
  /\ hist.calls = 1 => args.language \in {PYTHON, NODE}

C9_RubyRejected ==
  /\ pc = "done"
  /\ req.language = JStr(RUBY)
  /\ resp.kind = "error"
  /\ resp.status = 400
  /\ hist.calls = 0

\* C10: in every result the length of stdout and of stderr is at most
\* MAX_OUTPUT_BYTES, and a child that wrote more than MAX_OUTPUT_BYTES to its
\* stdout and completed normally yields a stdout exactly MAX_OUTPUT_BYTES long.
C10_OutputCapped ==
  resp.kind = "result" =>
    /\ TextLen(resp.stdout) <= MAX_OUTPUT_BYTES
    /\ TextLen(resp.stderr) <= MAX_OUTPUT_BYTES
    /\ (hist.concluded = "exit" /\ ByteLen(pipes.out) > MAX_OUTPUT_BYTES) =>
         TextLen(resp.stdout) = MAX_OUTPUT_BYTES

C12_ReadFailureSkipped ==
  (pc = "done" /\ hist.collectRuns = 1) =>
    /\ raised = ""
    /\ resp.kind = "result"
    /\ hist.teardownRuns = 1

\* C13: when staging fails (the work root or the output directory cannot be
\* created, the script cannot be written), execute_code returns a result with
\* exit code 1, an empty stdout and the error in stderr; no exception leaves it.
C13_StagingFailureReported ==
  (pc = "done" /\ hist.staged \in {"mkdtemp", "makedirs", "write"}) =>
    /\ raised = ""
    /\ resp.kind = "result"
    /\ resp.exitCode = 1
    /\ resp.stdout = <<>>
    /\ resp.stderr /= <<>>

\* C14: when launching the interpreter fails, the result has exit code 1, an
\* empty stdout and the error's text as stderr, no kill and no drain is done,
\* and collection and teardown still run.
C14_LaunchFailureReported ==
  hist.concluded = "launch" =>
    /\ proc.state = "none"
    /\ hist.launched = 0
    /\ ~hist.expired
    /\ hist.kill = "none"
    /\ exit_code = 1
    /\ stdout = <<>>
    /\ stderr = ExcText("OSError")
    /\ stderr /= <<>>
    /\ pc \in {"collect", "files", "read", "size", "cleanup", "done"}
    /\ pc \in {"cleanup", "done"} => hist.collectRuns = 1
    /\ pc = "done" =>
         /\ raised = ""
         /\ resp = ResultResp(<<>>, ExcText("OSError"), 1, <<>>)
         /\ hist.teardownRuns = 1
         /\ ~fs.root

C14_LaunchFailureResult ==
  /\ pc = "done"
  /\ hist.concluded = "launch"
  /\ resp.kind = "result"
  /\ resp.exitCode = 1
  /\ hist.collectRuns = 1
  /\ hist.teardownRuns = 1

C16_ChildEnvFixed ==
  proc.state /= "none" =>
    /\ proc.env = SAFE_ENV \cup {Var("OUTPUT_DIR", OutputDir)}
    /\ \A environ \in HostEnvs : proc.env = ChildEnv(environ, OutputDir)
    /\ \A v \in proc.env : v.name \in {w.name : w \in SAFE_ENV} \cup {"OUTPUT_DIR"}
    /\ \A v, w \in proc.env : v.name = w.name => v = w

C16_ChildLaunched ==
  /\ proc.state = "running"
  /\ Var("OUTPUT_DIR", OutputDir) \in proc.env
  /\ \E environ \in HostEnvs : \E v \in environ : v \notin proc.env

\* C17: if the direct child exits before the timeout expires, the normal path
\* is taken: the exit code is the child's status and stdout and stderr are its
\* capped output, also when the child left a descendant that holds the pipes.
C17_ExitInTimeIsNormal ==
  (/\ Concluded
   /\ args.timeout > 0
   /\ proc.state = "exited"
   /\ hist.expired => hist.exitedFirst) =>
    /\ hist.concluded = "exit"
    /\ exit_code = proc.rc
    /\ stdout = Capture(pipes.out)
    /\ stderr = Capture(pipes.err)

\* C18: on every timeout path a kill is attempted before the drain: the group
\* is signalled, or, when that fails with OSError, the direct child is killed;
\* a failed kill never fails the invocation, which goes on to the drain and
\* concludes, and no exception comes from the kill.
C18_KillNeverEscalates ==
  /\ (hist.expired /\ pc /= "kill") => hist.kill \in {"group", "child"}
  /\ hist.kill /= "none" => (hist.expired /\ proc.state \in {"exited", "killed"})
  /\ (hist.kill /= "none" /\ pc /= "drain") => hist.concluded \in {"timeout", "drain"}
  /\ (hist.kill /= "none" /\ raised /= "") => hist.collectRuns = 1

C18_FallbackResult ==
  /\ pc = "done"
  /\ hist.kill = "child"
  /\ resp.kind = "result"

\* C19: invocations of different requests run concurrently: while one request's
\* invocation is in its supervise phase, the server can take a second request
\* and start its invocation.
C19_AcceptsWhileSupervising ==
  pc = "wait" => ENABLED (\E r \in Requests : do_POST(r))

\* C20: in every entry of a result's files, size is the number of bytes encoded
\* in data and is strictly below MAX_FILE_BYTES, also when a surviving process
\* writes to the file between the size test, the read and the second size
\* lookup.
C20_SizeMatchesData ==
  resp.kind = "result" =>
    \A i \in 1..Len(resp.files) :
      /\ resp.files[i].size = resp.files[i].data
      /\ resp.files[i].size < MAX_FILE_BYTES

====
